---- MODULE Spec2Model ----
(***************************************************************************)
(* wr3d: the renderer state (src/state.rs, State) driven by the winit      *)
(* event-loop closure of src/main.rs.                                      *)
(*                                                                         *)
(* The closure is called by the host one event at a time; a frame that     *)
(* State::render acquired is followed through its recording and its        *)
(* submission (pc), so that the position of every other handler relative   *)
(* to a frame in flight is visible in the state.                           *)
(***************************************************************************)
EXTENDS Integers, Sequences, FiniteSets, TLC

VARIABLES
    size,            \* State.size: PhysicalSize<u32>
    sc_desc,         \* State.sc_desc: SwapChainDescriptor
    swap_chain,      \* State.swap_chain: the descriptor it was created from
    num_indices,     \* State.num_indices
    mesh_indices,    \* mesh.indices.len() of models[0] as loaded by State::new
    uniform_buffer,  \* contents of the buffer behind uniform_bind_group
    control_flow,    \* winit ControlFlow of the running loop
    loop_destroyed,  \* the host has sent LoopDestroyed and left event_loop.run
    redraw_requested,\* window.request_redraw() is pending
    pc,              \* position of the RedrawRequested handler inside render
    frame,           \* what the render call of the last handler did
    logged,          \* the last handler wrote an error with eprintln!
    ev,              \* the event the closure handled last
    last_call        \* the last State method called

vars == << size, sc_desc, swap_chain, num_indices, mesh_indices, uniform_buffer,
           control_flow, loop_destroyed, redraw_requested, pc, frame, logged, ev,
           last_call >>

----------------------------------------------------------------------------
(* Bounds of the model *)

\* window widths and heights range over 0..MaxDim
MaxDim == 2
\* the loaded mesh has 3, 6, .. 3 * MaxTriangles indices
MaxTriangles == 2

Dims == 0 .. MaxDim
Sizes == [width : Dims, height : Dims]
NonZeroSizes == { s \in Sizes : s.width > 0 /\ s.height > 0 }

----------------------------------------------------------------------------
(* Values *)

RECURSIVE Gcd(_, _)
Gcd(a, b) == IF b = 0 THEN a ELSE Gcd(b, a % b)

\* `width as f32 / height as f32`: the quotient as a fraction in lowest terms,
\* x/0 = inf as 1/0 and 0/0 = NaN as 0/0.
aspect_ratio_of(width, height) ==
    LET g == Gcd(width, height)
    IN  IF g = 0 THEN [num |-> 0, den |-> 0]
        ELSE [num |-> width \div g, den |-> height \div g]

\* Camera::build_view_projection_matrix with the fixed eye, center, up, fov and
\* clip planes of State::new: the matrix is determined by the aspect ratio.
build_view_projection_matrix(camera) == [aspect_ratio |-> camera.aspect_ratio]

\* Uniforms::new
Uniforms_new(camera) == [view_proj |-> build_view_projection_matrix(camera)]

\* device.create_swap_chain(&surface, &desc)
create_swap_chain(desc) == desc

SwapChainErrors == {"Timeout", "Outdated", "Lost", "OutOfMemory"}
AcquireResults == {"Ok"} \cup SwapChainErrors

\* the renderer's configuration, as the handlers can change it
Cfg == [size |-> size, sc_desc |-> sc_desc, swap_chain |-> swap_chain,
        uniform_buffer |-> uniform_buffer, num_indices |-> num_indices]

NoArg == [width |-> 0 - 1, height |-> 0 - 1]
NonZero(s) == s.width > 0 /\ s.height > 0

\* a State method call: its argument, the configuration it found, whether a frame
\* was held when it ran, whether it created a swap chain, and whether it is a
\* resize back to the size that the resize to a non-zero size just before it found
Call(op, arg, pre, created) ==
    [op |-> op, arg |-> arg, pre |-> pre, in_frame |-> frame.held, created |-> created,
     undo |-> /\ op = "resize"
              /\ last_call.op = "resize"
              /\ NonZero(last_call.arg)
              /\ arg = last_call.pre.size]

\* a recorded command of the render pass
Cmd(op, slot, res) ==
    [op |-> op, slot |-> slot, res |-> res, lo |-> 0, hi |-> 0, base_vertex |-> 0,
     inst_lo |-> 0, inst_hi |-> 0]
DrawIndexed(lo, hi, base_vertex, inst_lo, inst_hi) ==
    [op |-> "draw_indexed", slot |-> 0, res |-> "", lo |-> lo, hi |-> hi,
     base_vertex |-> base_vertex, inst_lo |-> inst_lo, inst_hi |-> inst_hi]

NoFrame == [result |-> "none", held |-> FALSE, cmds |-> << >>, submits |-> 0,
            presented |-> FALSE]

\* events
KeyStates == {"Pressed", "Released"}
KeyCodes == {"Escape", "A", "None"}
Event(kind, window, state, keycode) ==
    [kind |-> kind, window |-> window, state |-> state, keycode |-> keycode]
PlainEvent(kind) == Event(kind, "", "", "")

----------------------------------------------------------------------------
(* State::new *)

Init ==
    \E s \in NonZeroSizes, n \in 1 .. MaxTriangles :
        /\ size = s
        /\ sc_desc = [usage |-> "OUTPUT_ATTACHMENT", format |-> "Bgra8UnormSrgb",
                      width |-> s.width, height |-> s.height,
                      present_mode |-> "Fifo"]
        /\ swap_chain = create_swap_chain(sc_desc)
        /\ mesh_indices = 3 * n
        /\ num_indices = mesh_indices   \* `as u32`: the lengths here are far below 2^32
        /\ uniform_buffer =
               Uniforms_new([aspect_ratio |-> aspect_ratio_of(sc_desc.width, sc_desc.height)])
        /\ control_flow = "Poll"
        /\ loop_destroyed = FALSE
        /\ redraw_requested = FALSE
        /\ pc = "idle"
        /\ frame = NoFrame
        /\ logged = FALSE
        /\ ev = PlainEvent("Init")
        /\ last_call = [op |-> "new", arg |-> s, pre |-> Cfg, in_frame |-> FALSE,
                        created |-> TRUE, undo |-> FALSE]

----------------------------------------------------------------------------
(* State methods, as functions of the renderer's configuration *)

\* resize with the descriptor filled from self.size before self.size is assigned
resize_lagging(c, new_size) ==
    LET desc == [c.sc_desc EXCEPT !.width = c.size.width,
                                  !.height = c.size.height]
    IN  [c EXCEPT !.size = new_size,
                  !.sc_desc = desc,
                  !.swap_chain = create_swap_chain(desc)]

\* resize without the new swap chain
resize_keeps_swap_chain(c, new_size) ==
    LET desc == [c.sc_desc EXCEPT !.width = new_size.width,
                                  !.height = new_size.height]
    IN  [c EXCEPT !.size = new_size,
                  !.sc_desc = desc]

\* State::resize
resize(c, new_size) ==
    LET desc == [c.sc_desc EXCEPT !.width = new_size.width,
                                  !.height = new_size.height]
    IN  [c EXCEPT !.size = new_size,
                  !.sc_desc = desc,
                  !.swap_chain = create_swap_chain(desc)]

\* State::input
input(c, event) == FALSE

\* State::update
update(c) == c

\* the bind group layouts of render_pipeline_layout, by slot
bind_group_layouts == << "uniform_bind_group_layout", "texture_bind_group_layout" >>

\* the pass with the last index left out of the draw
render_pass_short_draw(c) ==
    << Cmd("begin_render_pass", 0, "frame.view"),
       Cmd("set_pipeline", 0, "render_pipeline"),
       Cmd("set_bind_group", 0, "uniform_bind_group"),
       Cmd("set_bind_group", 1, "diffuse_bind_group"),
       Cmd("set_vertex_buffer", 0, "pos_buffer"),
       Cmd("set_vertex_buffer", 1, "norm_buffer"),
       Cmd("set_vertex_buffer", 2, "tex_buffer"),
       Cmd("set_index_buffer", 0, "index_buffer"),
       DrawIndexed(0, c.num_indices - 1, 0, 0, 1),
       Cmd("end_render_pass", 0, "") >>

\* the pass with the diffuse bind group bound after the draw
render_pass_late_bind(c) ==
    << Cmd("begin_render_pass", 0, "frame.view"),
       Cmd("set_pipeline", 0, "render_pipeline"),
       Cmd("set_bind_group", 0, "uniform_bind_group"),
       Cmd("set_vertex_buffer", 0, "pos_buffer"),
       Cmd("set_vertex_buffer", 1, "norm_buffer"),
       Cmd("set_vertex_buffer", 2, "tex_buffer"),
       Cmd("set_index_buffer", 0, "index_buffer"),
       DrawIndexed(0, c.num_indices, 0, 0, 1),
       Cmd("set_bind_group", 1, "diffuse_bind_group"),
       Cmd("end_render_pass", 0, "") >>

\* State::render after the frame is acquired: the commands of the render pass
render_pass(c) ==
    << Cmd("begin_render_pass", 0, "frame.view"),
       Cmd("set_pipeline", 0, "render_pipeline"),
       Cmd("set_bind_group", 0, "uniform_bind_group"),
       Cmd("set_bind_group", 1, "diffuse_bind_group"),
       Cmd("set_vertex_buffer", 0, "pos_buffer"),
       Cmd("set_vertex_buffer", 1, "norm_buffer"),
       Cmd("set_vertex_buffer", 2, "tex_buffer"),
       Cmd("set_index_buffer", 0, "index_buffer"),
       DrawIndexed(0, c.num_indices, 0, 0, 1),
       Cmd("end_render_pass", 0, "") >>

SetCfg(c) ==
    /\ size' = c.size
    /\ sc_desc' = c.sc_desc
    /\ swap_chain' = c.swap_chain
    /\ uniform_buffer' = c.uniform_buffer
    /\ num_indices' = c.num_indices

----------------------------------------------------------------------------
(* The event loop: event_loop.run(move |event, _, control_flow| ...) *)

\* a host that calls the closure again while a call is still running
CallbackReentrant == TRUE

\* the closure owns `state` and is called by the host for one event at a time:
\* a call begins only when the previous one has returned
CallbackIdle == pc = "idle"

\* the host dispatches events until the closure has asked for Exit
LoopRunning == control_flow # "Exit" /\ ~loop_destroyed

\* a write of `requested` through the closure's control_flow reference: once
\* Exit, the host hands the closure a dummy reference and Exit stays
SetControlFlow(requested) == IF control_flow = "Exit" THEN "Exit" ELSE requested

\* a match on the key state alone
IsAnyKeyPressed(e) == e.state = "Pressed"

\* KeyboardInput { state: Pressed, virtual_keycode: Some(Escape), .. }
IsEscapePressed(e) == e.state = "Pressed" /\ e.keycode = "Escape"

\* Err(SwapChainError::Lost) => state.resize(state.size)
RenderErrResizes(r) == r = "Lost"

\* no arm that exits
RenderErrNeverExits(r) == FALSE

\* an exit on a timeout as well
RenderErrExitsOnTimeout(r) == r \in {"OutOfMemory", "Timeout"}

\* Err(SwapChainError::OutOfMemory) => *control_flow = ControlFlow::Exit
RenderErrExits(r) == r = "OutOfMemory"

\* Err(e) => eprintln!("{:?}", e)
RenderErrLogs(r) == r \in SwapChainErrors /\ ~RenderErrResizes(r) /\ ~RenderErrExits(r)

\* a handler that calls no State method
Ignored ==
    /\ frame' = NoFrame
    /\ UNCHANGED << size, sc_desc, swap_chain, num_indices, mesh_indices, uniform_buffer,
                    loop_destroyed, redraw_requested, pc, last_call >>

\* WindowEvent::CloseRequested
CloseRequested ==
    /\ CallbackIdle /\ LoopRunning
    /\ control_flow' = SetControlFlow("Exit")
    /\ ev' = Event("CloseRequested", "this", "", "")
    /\ logged' = FALSE
    /\ Ignored

\* WindowEvent::KeyboardInput
KeyboardInput ==
    \E st \in KeyStates, key \in KeyCodes :
        LET e == Event("KeyboardInput", "this", st, key)
        IN  /\ CallbackIdle /\ LoopRunning
            /\ control_flow' = SetControlFlow(IF IsEscapePressed(e) THEN "Exit" ELSE "Poll")
            /\ ev' = e
            /\ logged' = FALSE
            /\ Ignored

\* the body shared by WindowEvent::Resized and WindowEvent::ScaleFactorChanged
ResizeHandler(kind, new_size) ==
    /\ CallbackIdle /\ LoopRunning
    /\ control_flow' = SetControlFlow("Poll")
    /\ SetCfg(resize(Cfg, new_size))
    /\ last_call' = Call("resize", new_size, Cfg, TRUE)
    /\ ev' = Event(kind, "this", "", "")
    /\ logged' = FALSE
    /\ frame' = NoFrame
    /\ UNCHANGED << mesh_indices, loop_destroyed, redraw_requested, pc >>

\* WindowEvent::Resized(physical_size)
Resized == \E s \in Sizes : ResizeHandler("Resized", s)

\* WindowEvent::ScaleFactorChanged { new_inner_size, .. }
ScaleFactorChanged == \E s \in Sizes : ResizeHandler("ScaleFactorChanged", s)

\* any other WindowEvent of this window: _ => ()
OtherWindowEvent ==
    /\ CallbackIdle /\ LoopRunning
    /\ control_flow' = SetControlFlow("Poll")
    /\ ev' = Event("Focused", "this", "", "")
    /\ logged' = FALSE
    /\ Ignored

\* a WindowEvent whose window_id is not window.id(): falls to the outer _ => ()
ForeignWindowEvent ==
    \E kind \in {"CloseRequested", "KeyboardInput", "Resized"} :
        /\ CallbackIdle /\ LoopRunning
        /\ control_flow' = SetControlFlow("Poll")
        /\ ev' = Event(kind, "other", IF kind = "KeyboardInput" THEN "Pressed" ELSE "",
                       IF kind = "KeyboardInput" THEN "Escape" ELSE "")
        /\ logged' = FALSE
        /\ Ignored

\* Event::MainEventsCleared => window.request_redraw()
MainEventsCleared ==
    /\ CallbackIdle /\ LoopRunning
    /\ control_flow' = SetControlFlow("Poll")
    /\ redraw_requested' = TRUE
    /\ ev' = PlainEvent("MainEventsCleared")
    /\ logged' = FALSE
    /\ frame' = NoFrame
    /\ UNCHANGED << size, sc_desc, swap_chain, num_indices, mesh_indices, uniform_buffer,
                    loop_destroyed, pc, last_call >>

\* Event::RedrawRequested: state.update(), then state.render() up to the result of
\* swap_chain.get_current_frame(); on Err render returns at once and the arm of
\* the match runs, on Ok the frame is held and the pass is recorded next
RedrawRequested ==
    \E r \in AcquireResults :
        LET c1 == update(Cfg)
            c2 == IF RenderErrResizes(r) THEN resize(c1, c1.size) ELSE c1
        IN  /\ CallbackIdle /\ LoopRunning
            /\ redraw_requested
            /\ redraw_requested' = FALSE
            /\ control_flow' = SetControlFlow(IF RenderErrExits(r) THEN "Exit" ELSE "Poll")
            /\ SetCfg(c2)
            /\ frame' = [NoFrame EXCEPT !.result = r, !.held = (r = "Ok")]
            /\ pc' = IF r = "Ok" THEN "acquired" ELSE "idle"
            /\ logged' = RenderErrLogs(r)
            /\ last_call' = IF RenderErrResizes(r)
                            THEN Call("resize", c1.size, c1, TRUE)
                            ELSE Call("render", NoArg, c1, FALSE)
            /\ ev' = PlainEvent("RedrawRequested")
            /\ UNCHANGED << mesh_indices, loop_destroyed >>

\* State::render: begin_render_pass .. drop(render_pass)
RenderRecord ==
    /\ pc = "acquired"
    /\ frame' = [frame EXCEPT !.cmds = render_pass(Cfg)]
    /\ pc' = "recorded"
    /\ UNCHANGED << size, sc_desc, swap_chain, num_indices, mesh_indices, uniform_buffer,
                    control_flow, loop_destroyed, redraw_requested, logged, ev,
                    last_call >>

\* State::render: queue.submit(once(encoder.finish())), Ok(()); the frame is
\* dropped on return, which presents it; the Ok(_) arm does nothing
RenderSubmit ==
    /\ pc = "recorded"
    /\ frame' = [frame EXCEPT !.submits = @ + 1, !.held = FALSE, !.presented = TRUE]
    /\ pc' = "idle"
    /\ UNCHANGED << size, sc_desc, swap_chain, num_indices, mesh_indices, uniform_buffer,
                    control_flow, loop_destroyed, redraw_requested, logged, ev,
                    last_call >>

\* any other Event (NewEvents, RedrawEventsCleared, ..): _ => ()
OtherEvent ==
    /\ CallbackIdle /\ LoopRunning
    /\ control_flow' = SetControlFlow("Poll")
    /\ ev' = PlainEvent("RedrawEventsCleared")
    /\ logged' = FALSE
    /\ Ignored

\* after Exit the host calls the closure a last time with Event::LoopDestroyed
\* (_ => ()) and leaves the loop; the closure's write of Poll is discarded
LoopDestroyed ==
    /\ CallbackIdle
    /\ control_flow = "Exit" /\ ~loop_destroyed
    /\ control_flow' = SetControlFlow("Poll")
    /\ loop_destroyed' = TRUE
    /\ ev' = PlainEvent("LoopDestroyed")
    /\ logged' = FALSE
    /\ frame' = NoFrame
    /\ UNCHANGED << size, sc_desc, swap_chain, num_indices, mesh_indices, uniform_buffer,
                    redraw_requested, pc, last_call >>

Next ==
    \/ CloseRequested
    \/ KeyboardInput
    \/ Resized
    \/ ScaleFactorChanged
    \/ OtherWindowEvent
    \/ ForeignWindowEvent
    \/ MainEventsCleared
    \/ RedrawRequested
    \/ RenderRecord
    \/ RenderSubmit
    \/ OtherEvent
    \/ LoopDestroyed

Spec == Init /\ [][Next]_vars

----------------------------------------------------------------------------
(* Properties *)

IsZero(s) == s.width = 0 \/ s.height = 0
StateCall == Resized \/ ScaleFactorChanged \/ RedrawRequested \/ RenderRecord \/ RenderSubmit

\* the positions of a command in a pass
At(cmds, op, slot) == { i \in DOMAIN cmds : cmds[i].op = op /\ cmds[i].slot = slot }
Draws(cmds) == { i \in DOMAIN cmds : cmds[i].op = "draw_indexed" }
Once(S) == Cardinality(S) = 1
Idx(S) == CHOOSE i \in S : TRUE
\* a successful render call that has returned
Rendered == frame.result = "Ok" /\ pc = "idle"

\* C1: a resize with a zero width or height is rejected: it creates no swap chain
\* and the stored size and the descriptor's width and height stay as they were.
C1_ZeroResizeRejected ==
    (last_call.op = "resize" /\ IsZero(last_call.arg)) =>
        /\ ~last_call.created
        /\ size = last_call.pre.size
        /\ sc_desc.width = last_call.pre.sc_desc.width
        /\ sc_desc.height = last_call.pre.sc_desc.height

\* C2: a redraw whose render fails with Lost or Outdated reconfigures the surface
\* (resize at the current size) in the same handler, records and submits nothing,
\* and leaves the loop running.
C2_RecoverableReconfigures ==
    frame.result \in {"Lost", "Outdated"} =>
        /\ last_call.op = "resize"
        /\ last_call.arg = last_call.pre.size
        /\ last_call.created
        /\ frame.cmds = << >> /\ frame.submits = 0 /\ ~frame.held
        /\ pc = "idle"
        /\ control_flow = "Poll" /\ ~loop_destroyed

C4_OneFullDraw ==
    /\ [](frame.result = "Ok" /\ pc # "acquired" =>
              /\ Once(Draws(frame.cmds))
              /\ \A i \in Draws(frame.cmds) :
                     /\ frame.cmds[i].lo = 0 /\ frame.cmds[i].hi = num_indices
                     /\ frame.cmds[i].base_vertex = 0
                     /\ frame.cmds[i].inst_lo = 0 /\ frame.cmds[i].inst_hi = 1)
    /\ [](num_indices = mesh_indices)
    /\ [][num_indices' = num_indices /\ mesh_indices' = mesh_indices]_vars

C4_Witness ==
    /\ Rendered /\ frame.submits = 1
    /\ last_call.op = "render" /\ last_call.pre.num_indices = 6
    /\ Once(Draws(frame.cmds))

\* the order of a successful render with the bind groups of the slots 0 .. n-1
PassInOrder(n) ==
    LET cmds == frame.cmds
        begin == At(cmds, "begin_render_pass", 0)
        pipeline == At(cmds, "set_pipeline", 0)
        group(s) == At(cmds, "set_bind_group", s)
        vertex(s) == At(cmds, "set_vertex_buffer", s)
        index == At(cmds, "set_index_buffer", 0)
        draw == Draws(cmds)
        end == At(cmds, "end_render_pass", 0)
    IN  /\ Once(begin) /\ Once(pipeline) /\ Once(index) /\ Once(draw) /\ Once(end)
        /\ \A s \in 0 .. n - 1 : Once(group(s))
        /\ \E s \in 0 .. 2 : Once(vertex(s))
        /\ Idx(begin) = 1
        /\ Idx(begin) < Idx(pipeline)
        /\ \A s \in 0 .. n - 1 : Idx(pipeline) < Idx(group(s))
        /\ \A s, u \in 0 .. n - 1 : s < u => Idx(group(s)) < Idx(group(u))
        /\ \A s \in 0 .. n - 1, u \in 0 .. 2 :
               vertex(u) # {} => \A i \in vertex(u) : Idx(group(s)) < i
        /\ \A s \in 0 .. n - 1 : Idx(group(s)) < Idx(index) /\ Idx(group(s)) < Idx(draw)
        /\ \A u \in 0 .. 2 : \A i \in vertex(u) : i < Idx(draw)
        /\ Idx(index) < Idx(draw)
        /\ Idx(draw) < Idx(end)
        /\ Idx(end) = Len(cmds)
        /\ frame.submits = 1

C6_ResizeRoundTrip ==
    [][(/\ last_call.op = "resize"
        /\ NonZero(last_call.arg)
        /\ last_call'.op = "resize"
        /\ last_call'.arg = last_call.pre.size
        /\ last_call'.pre = Cfg) =>
           /\ size' = last_call.pre.size
           /\ sc_desc' = last_call.pre.sc_desc
           /\ uniform_buffer'.view_proj.aspect_ratio =
                  last_call.pre.uniform_buffer.view_proj.aspect_ratio]_vars

C6_Witness ==
    /\ last_call.undo
    /\ last_call.pre.size # size
    /\ NonZero(size)

\* C7: the aspect ratio of the view-projection in the buffer bound at slot 0 is
\* the surface's width / height.
C7_AspectFollowsSurface ==
    NonZero(size) =>
        uniform_buffer.view_proj.aspect_ratio =
            aspect_ratio_of(sc_desc.width, sc_desc.height)

\* C8: a redraw whose render fails with an error other than Lost, Outdated and
\* OutOfMemory logs it, records and submits nothing, leaves size, descriptor and
\* swap chain as they were, and leaves the loop running and ready for the next event.
C8_TransientLoggedAndSkipped ==
    frame.result \in SwapChainErrors \ {"Lost", "Outdated", "OutOfMemory"} =>
        /\ logged
        /\ frame.cmds = << >> /\ frame.submits = 0 /\ ~frame.held
        /\ last_call.op = "render"
        /\ Cfg = last_call.pre
        /\ control_flow = "Poll" /\ ~loop_destroyed /\ pc = "idle"
        /\ ENABLED MainEventsCleared

C8_Witness == frame.result = "Timeout" /\ logged /\ control_flow = "Poll"

\* an event of a window that is neither a resize nor a close request, or any
\* event of another window
IsOtherWindowEvent(e) ==
    \/ e.window = "this" /\ e.kind \notin {"Resized", "ScaleFactorChanged", "CloseRequested"}
    \/ e.window = "other"

\* C9 as stated: every window event other than a resize and a close request, every
\* key press among them, leaves the renderer as it was and does not end the loop.
C9_OnlyResizeAndClose ==
    [][IsOtherWindowEvent(ev') =>
           /\ Cfg' = Cfg /\ last_call' = last_call
           /\ control_flow' # "Exit"]_vars

\* C9 as amended: every window event other than a resize (Resized,
\* ScaleFactorChanged), a close request and a press of Escape leaves the renderer
\* as it was and does not end the loop; a press of Escape leaves the renderer as it
\* was and ends the loop.
C9_OnlyResizeCloseAndEscape ==
    [][IsOtherWindowEvent(ev') =>
           /\ Cfg' = Cfg /\ last_call' = last_call
           /\ control_flow' = "Exit" <=>
                  (ev'.window = "this" /\ ev'.kind = "KeyboardInput"
                   /\ ev'.state = "Pressed" /\ ev'.keycode = "Escape")]_vars

C9_Witness ==
    /\ ev.kind = "KeyboardInput" /\ ev.window = "this"
    /\ ev.state = "Pressed" /\ ev.keycode = "A"
    /\ control_flow = "Poll"

\* C10: no resize runs while render holds a frame: every resize was called with no
\* frame held, a held frame belongs to the redraw that is running, and no frame
\* is held between two calls of the closure.
C10_ResizeBetweenFrames ==
    /\ last_call.op = "resize" => ~last_call.in_frame
    /\ frame.held => (ev.kind = "RedrawRequested" /\ last_call.op = "render"
                      /\ pc \in {"acquired", "recorded"})
    /\ pc = "idle" => ~frame.held

C10_Witness ==
    /\ frame.result = "Lost"
    /\ last_call.op = "resize" /\ ~last_call.in_frame
    /\ ev.kind = "RedrawRequested"

\* C11: size is the width and height of the surface descriptor and the swap chain
\* is the one created from that descriptor, in every state; the redraw handler
\* (update, then render, through the recording and the submission of the frame)
\* changes neither size nor the descriptor.
C11_SizeMatchesSurface ==
    /\ [](/\ size.width = sc_desc.width
          /\ size.height = sc_desc.height
          /\ swap_chain = create_swap_chain(sc_desc))
    /\ [][ev'.kind = "RedrawRequested" => size' = size /\ sc_desc' = sc_desc]_vars

C11_Witness ==
    /\ last_call.op = "resize"
    /\ last_call.pre.size # size
    /\ last_call.pre.swap_chain # swap_chain
    /\ swap_chain.width = size.width /\ swap_chain.height = size.height

====
